---- MODULE Spec2Model ----
(***************************************************************************)
(* Model of tls_cert_discovery.py: the scan loop of __main__ and the three *)
(* helpers it calls (extract_tls_cert, extract_subject_alternate_name_list,*)
(* extract_san_ip) together with the process-wide SAN_CACHE_DICT.          *)
(*                                                                         *)
(* The network is the environment: the outcome of every TLS handshake, of  *)
(* every certificate parse and of every socket.gethostbyname call is drawn *)
(* nondeterministically, independently for every call.                     *)
(*                                                                         *)
(* A SAN name is a sequence of one-character strings, so that the test     *)
(* '"*" not in san_item' is computed on the characters of the name.        *)
(* Targets and IP addresses are strings compared by exact equality.        *)
(***************************************************************************)
EXTENDS Naturals, Sequences, FiniteSets, TLC

(* ---------------------------- bounds ------------------------------------ *)
\* longest target list that is scanned
MaxTargets == 2
\* longest subjectAltName list a certificate yields
MaxSan == 2
\* the history counts the gethostbyname calls of a name up to this many
DnsCallCap == 2

(* --------------------------- input pools -------------------------------- *)
\* strings the target list is made of (lines 102-110)
TargetPool == {"10.0.0.1", "10.0.0.2"}
\* names a subjectAltName extension may list: two hostnames and a wildcard
SanNames == {<<"a">>, <<"b">>, <<"*", "a">>}
\* addresses socket.gethostbyname may return: "10.0.0.2" is a target of some
\* runs and a new host in the others
DnsAddrs == {"10.0.0.2"}

\* the address stored for a wildcard or an unresolvable name (line 65)
Sentinel == "0.0.0.0"

\* sequences over S of length lo..hi
SeqsOf(S, lo, hi) == UNION {[1..n -> S] : n \in lo..hi}

\* what extract_tls_cert returns: a PEM certificate or None (lines 28-33)
NoCert == "None"
PemCert == "PEM"
CertOutcomes == {NoCert, PemCert}

\* what extract_subject_alternate_name_list returns: None, or a list that
\* may be empty (san = [] at line 48 followed by an exception) (lines 42-54)
SanNone == [none |-> TRUE, items |-> <<>>]
SanList(s) == [none |-> FALSE, items |-> s]
SanOutcomes == {SanNone} \cup {SanList(s) : s \in SeqsOf(SanNames, 0, MaxSan)}

\* what socket.gethostbyname does: raises, or returns an address (line 69)
DnsFail == [ok |-> FALSE, ip |-> ""]
DnsOutcomes == {DnsFail} \cup {[ok |-> TRUE, ip |-> a] : a \in DnsAddrs}

VARIABLES
    targets,            \* the list of targets, fixed before the loop
    i,                  \* number of targets the loop has taken (1-based index of the current one)
    pc,                 \* position of the scan: "loop", "extract", "resolve", "classify", "done"
    x509_cert,          \* result of extract_tls_cert for the current target
    x509_cert_san,      \* result of extract_subject_alternate_name_list
    j,                  \* position in x509_cert_san of the inner loops
    x509_cert_san_ip,   \* the dict extract_san_ip builds (result)
    SAN_CACHE_DICT,     \* the process-wide cache
    data,               \* the ScanResult: "target:443" -> list of records
    \* --- history of the run, written only to state properties ---
    origTargets,        \* the target list as it was loaded
    attempted,          \* indices of the targets extract_tls_cert was called for, in order
    dnsCalls,           \* name -> number of gethostbyname calls issued for it
    returned,           \* name -> set of addresses extract_san_ip has stored for it
    failedNames,        \* names for which a gethostbyname call has raised
    cacheAccess,        \* names for which SAN_CACHE_DICT was read or written
    lastYield           \* target -> SAN list of its last occurrence that yielded entries

vars == <<targets, i, pc, x509_cert, x509_cert_san, j, x509_cert_san_ip,
          SAN_CACHE_DICT, data, origTargets, attempted, dnsCalls, returned,
          failedNames, cacheAccess, lastYield>>

hist == <<dnsCalls, returned, failedNames, cacheAccess>>

(* ----------------------------- helpers ---------------------------------- *)
\* data_key = current_ip + ":443"
DataKey(current_ip) == current_ip \o ":443"

\* '"*" in san_item'
HasWildcard(san_item) == \E k \in 1..Len(san_item) : san_item[k] = "*"

\* membership of a list: 'san_ip not in targets' is ~InList(san_ip, targets)
InList(x, list) == \E k \in 1..Len(list) : list[k] = x

\* d[k] = v on a dict
DictSet(d, k, v) == [x \in DOMAIN d \cup {k} |-> IF x = k THEN v ELSE d[x]]

EmptyDict == [x \in {} |-> Sentinel]

\* the try block of extract_san_ip for one name:
\* ip is what result[san_item] holds afterwards, cache the cache afterwards,
\* called whether gethostbyname was called, failed whether it raised
\* (variant: the test 'san_item not in SAN_CACHE_DICT' left out)
LookupNoCacheCheck(cache, san_item, dns) ==
    IF dns.ok
    THEN [ip |-> dns.ip, cache |-> DictSet(cache, san_item, dns.ip),
          called |-> TRUE, failed |-> FALSE]
    ELSE [ip |-> Sentinel, cache |-> cache, called |-> TRUE, failed |-> TRUE]

Lookup(cache, san_item, dns) ==
    IF san_item \notin DOMAIN cache
    THEN IF dns.ok
         THEN [ip |-> dns.ip, cache |-> DictSet(cache, san_item, dns.ip),
               called |-> TRUE, failed |-> FALSE]
         ELSE [ip |-> Sentinel, cache |-> cache, called |-> TRUE, failed |-> TRUE]
    ELSE [ip |-> cache[san_item], cache |-> cache, called |-> FALSE, failed |-> FALSE]

\* one iteration of the loop of extract_san_ip
\* (variant: the test '"*" not in san_item' left out)
ResolveItemNoWildcardTest(cache, san_item, dns) ==
    Lookup(cache, san_item, dns) @@ [touched |-> TRUE]

ResolveItem(cache, san_item, dns) ==
    IF ~HasWildcard(san_item)
    THEN Lookup(cache, san_item, dns) @@ [touched |-> TRUE]
    ELSE [ip |-> Sentinel, cache |-> cache, called |-> FALSE, failed |-> FALSE,
          touched |-> FALSE]

\* the classification branch
\* (variant: the test 'san_ip == "0.0.0.0"' left out)
IsNewHostNoSentinelTest(san_ip, tgts) == ~InList(san_ip, tgts)

IsNewHost(san_ip, tgts) ==
    IF san_ip = Sentinel THEN FALSE
    ELSE IF ~InList(san_ip, tgts) THEN TRUE
    ELSE FALSE

\* san_infos of one SAN entry
SanInfos(san_item, san_ip, tgts) ==
    [SAN |-> san_item, IP |-> san_ip, IS_NEW_HOST |-> IsNewHost(san_ip, tgts)]

\* 'x509_cert_san is not None and len(x509_cert_san) > 0'
\* (variant: 'len(x509_cert_san) > 0' left out)
YieldsSanNotNoneOnly(san) == ~san.none

YieldsSan(san) == ~san.none /\ Len(san.items) > 0

\* data[data_key] = []
\* (variant: data.setdefault(data_key, []))
KeepRecords(d, key) == IF key \in DOMAIN d THEN d ELSE DictSet(d, key, <<>>)

ResetRecords(d, key) == DictSet(d, key, <<>>)

\* data[data_key].append(san_infos)
\* (variant: a SAN already recorded for the target is not recorded again)
AppendRecordOncePerSan(d, key, san_infos) ==
    IF \E k \in 1..Len(d[key]) : d[key][k].SAN = san_infos.SAN
    THEN d
    ELSE [d EXCEPT ![key] = Append(@, san_infos)]

AppendRecord(d, key, san_infos) == [d EXCEPT ![key] = Append(@, san_infos)]

\* where the loop goes after extract_tls_cert: its try/except turns every
\* failure into None, and None only skips the body
\* (variant: a failed handshake ends the loop)
AfterFetchAbortOnFailure(cert) == IF cert # NoCert THEN "extract" ELSE "done"

AfterFetch(cert) == IF cert # NoCert THEN "extract" ELSE "loop"

(* ------------------------------ Init ------------------------------------ *)
Init ==
    /\ targets \in SeqsOf(TargetPool, 1, MaxTargets)
    /\ i = 0
    /\ pc = "loop"
    /\ x509_cert = NoCert
    /\ x509_cert_san = SanNone
    /\ j = 1
    /\ x509_cert_san_ip = EmptyDict
    /\ SAN_CACHE_DICT = EmptyDict
    /\ data = [k \in {} |-> <<>>]
    /\ origTargets = targets
    /\ attempted = <<>>
    /\ dnsCalls = [n \in SanNames |-> 0]
    /\ returned = [n \in SanNames |-> {}]
    /\ failedNames = {}
    /\ cacheAccess = {}
    /\ lastYield = [t \in TargetPool |-> <<>>]

(* ----------------------------- actions ---------------------------------- *)
\* the loop takes the next target and calls extract_tls_cert on it
Fetch ==
    /\ pc = "loop"
    /\ i < Len(targets)
    /\ i' = i + 1
    /\ attempted' = Append(attempted, i + 1)
    /\ \E cert \in CertOutcomes :
         /\ x509_cert' = cert
         /\ pc' = AfterFetch(cert)
    /\ UNCHANGED <<targets, origTargets, x509_cert_san, j, x509_cert_san_ip, SAN_CACHE_DICT,
                   data, hist, lastYield>>

\* extract_subject_alternate_name_list, the test on its result and, when
\* it yields entries, data[data_key] = [] and the start of extract_san_ip
Extract ==
    /\ pc = "extract"
    /\ \E san \in SanOutcomes :
         /\ x509_cert_san' = san
         /\ IF YieldsSan(san)
            THEN /\ data' = ResetRecords(data, DataKey(targets[i]))
                 /\ lastYield' = [lastYield EXCEPT ![targets[i]] = san.items]
                 /\ x509_cert_san_ip' = EmptyDict
                 /\ j' = 1
                 /\ pc' = "resolve"
            ELSE /\ pc' = "loop"
                 /\ UNCHANGED <<data, lastYield, x509_cert_san_ip, j>>
    /\ UNCHANGED <<targets, origTargets, i, x509_cert, SAN_CACHE_DICT, attempted, hist>>

\* the history of one iteration of extract_san_ip
LogResolution(san_item, r) ==
    /\ dnsCalls' = [dnsCalls EXCEPT ![san_item] = IF r.called /\ @ < DnsCallCap THEN @ + 1 ELSE @]
    /\ returned' = [returned EXCEPT ![san_item] = @ \cup {r.ip}]
    /\ failedNames' = IF r.failed THEN failedNames \cup {san_item} ELSE failedNames
    /\ cacheAccess' = IF r.touched THEN cacheAccess \cup {san_item} ELSE cacheAccess

\* (variant: each record is built as soon as its entry is resolved)
ResolveInterleaved ==
    /\ pc = "resolve"
    /\ \E dns \in DnsOutcomes :
         LET san_item == x509_cert_san.items[j]
             r == ResolveItem(SAN_CACHE_DICT, san_item, dns)
         IN  /\ x509_cert_san_ip' = DictSet(x509_cert_san_ip, san_item, r.ip)
             /\ SAN_CACHE_DICT' = r.cache
             /\ LogResolution(san_item, r)
             /\ data' = AppendRecord(data, DataKey(targets[i]),
                                     SanInfos(san_item, r.ip, targets))
    /\ IF j < Len(x509_cert_san.items)
       THEN j' = j + 1 /\ pc' = "resolve"
       ELSE j' = 1 /\ pc' = "loop"
    /\ UNCHANGED <<targets, origTargets, i, x509_cert, x509_cert_san, attempted, lastYield>>

\* one iteration of the loop of extract_san_ip, done for every entry before
\* any record is built
Resolve ==
    /\ pc = "resolve"
    /\ \E dns \in DnsOutcomes :
         LET san_item == x509_cert_san.items[j]
             r == ResolveItem(SAN_CACHE_DICT, san_item, dns)
         IN  /\ x509_cert_san_ip' = DictSet(x509_cert_san_ip, san_item, r.ip)
             /\ SAN_CACHE_DICT' = r.cache
             /\ LogResolution(san_item, r)
    /\ IF j < Len(x509_cert_san.items)
       THEN j' = j + 1 /\ pc' = "resolve"
       ELSE j' = 1 /\ pc' = "classify"
    /\ UNCHANGED <<targets, origTargets, i, x509_cert, x509_cert_san, data, attempted, lastYield>>

\* one iteration of the loop that builds the records of the current target
Classify ==
    /\ pc = "classify"
    /\ LET x509_cert_san_item == x509_cert_san.items[j]
           san_ip == x509_cert_san_ip[x509_cert_san_item]
       IN  data' = AppendRecord(data, DataKey(targets[i]),
                                SanInfos(x509_cert_san_item, san_ip, targets))
    /\ IF j < Len(x509_cert_san.items)
       THEN j' = j + 1 /\ pc' = "classify"
       ELSE j' = 1 /\ pc' = "loop"
    /\ UNCHANGED <<targets, origTargets, i, x509_cert, x509_cert_san, x509_cert_san_ip,
                   SAN_CACHE_DICT, attempted, hist, lastYield>>

\* the loop over the targets is exhausted
Finish ==
    /\ pc = "loop"
    /\ i = Len(targets)
    /\ pc' = "done"
    /\ UNCHANGED <<targets, origTargets, i, x509_cert, x509_cert_san, j, x509_cert_san_ip,
                   SAN_CACHE_DICT, data, attempted, hist, lastYield>>

Next == Fetch \/ Extract \/ Resolve \/ Classify \/ Finish

Spec == Init /\ [][Next]_vars

(* -------------------------- state views ---------------------------------- *)
\* all the records of the ScanResult, with the key they are stored under
AllRecords ==
    UNION {{[key |-> key, rec |-> data[key][k]] : k \in 1..Len(data[key])} :
             key \in DOMAIN data}

\* the SAN column of one record sequence
SansOf(records) == [k \in 1..Len(records) |-> records[k].SAN]

\* the scan is between two targets, or over
BetweenTargets == pc \in {"loop", "done"}

\* the current target yielded SAN entries
CurrentYielded == i >= 1 /\ x509_cert # NoCert /\ YieldsSan(x509_cert_san)

(* ------------------------------ claims ----------------------------------- *)

\* C1: every record of the ScanResult has IS_NEW_HOST true exactly when its
\* IP is not the sentinel 0.0.0.0 and is not an element of the target list
\* as it was loaded, and the target list is still the one that was loaded.
C1_IsNewHostIff ==
    /\ targets = origTargets
    /\ \A e \in AllRecords :
         e.rec.IS_NEW_HOST <=> (e.rec.IP # Sentinel /\ ~InList(e.rec.IP, origTargets))

\* a finished target with one record flagged as a new host and one record
\* carrying the sentinel
C1_Witness ==
    /\ BetweenTargets
    /\ \E e1, e2 \in AllRecords :
         /\ e1.rec.IS_NEW_HOST /\ e1.rec.IP # Sentinel
         /\ e2.rec.IP = Sentinel /\ ~e2.rec.IS_NEW_HOST

\* C2: every name whose gethostbyname call has raised is a key of
\* SAN_CACHE_DICT mapped to 0.0.0.0.
C2_FailureIsCached ==
    \A n \in failedNames : n \in DOMAIN SAN_CACHE_DICT /\ SAN_CACHE_DICT[n] = Sentinel

\* C3: over the whole run every name has at most one gethostbyname call and
\* every resolution of it stores the same address.
C3_OneCallPerName ==
    \A n \in SanNames : dnsCalls[n] <= 1 /\ Cardinality(returned[n]) <= 1

C5_FailedTargetHasNoKey ==
    (BetweenTargets /\ i >= 1 /\ ~CurrentYielded)
        => DataKey(targets[i]) \notin DOMAIN data

\* C5 as amended: an empty record sequence is only ever that of the target
\* being processed, and a target string none of whose occurrences taken so
\* far yielded SAN entries has no key 'target:443' in the ScanResult.
C5_NoEmptyNoKey ==
    /\ \A key \in DOMAIN data :
         Len(data[key]) = 0 =>
           pc \in {"resolve", "classify"} /\ key = DataKey(targets[i])
    /\ \A t \in TargetPool :
         lastYield[t] = <<>> => DataKey(t) \notin DOMAIN data

\* a finished target without certificate or SAN entries and without key,
\* next to a target that has records
C5_Witness ==
    /\ BetweenTargets /\ i >= 1 /\ ~CurrentYielded
    /\ DataKey(targets[i]) \notin DOMAIN data
    /\ DOMAIN data # {}

\* C6: while the records of a target are built they carry, in order, the
\* SAN entries taken so far, and once the target is finished its sequence
\* has one record per occurrence of the SAN list, in extraction order.
C6_OneRecordPerOccurrence ==
    /\ pc = "classify" =>
         SansOf(data[DataKey(targets[i])]) = SubSeq(x509_cert_san.items, 1, j - 1)
    /\ (BetweenTargets /\ CurrentYielded) =>
         SansOf(data[DataKey(targets[i])]) = x509_cert_san.items

\* a finished target whose SAN list holds the same name twice
C6_Witness ==
    /\ BetweenTargets /\ CurrentYielded
    /\ Len(x509_cert_san.items) >= 2
    /\ x509_cert_san.items[1] = x509_cert_san.items[2]
    /\ Len(data[DataKey(targets[i])]) = Len(x509_cert_san.items)

\* position of a control point within the processing of one target
PcRank(p) ==
    CASE p = "extract" -> 1
      [] p = "resolve" -> 2
      [] p = "classify" -> 3
      [] p = "loop" -> 4
      [] p = "done" -> 5

\* a step moves the scan forward: to a later target, or to a later control
\* point of the same target, or to a later entry of the same inner loop
Advances ==
    \/ i' > i
    \/ i' = i /\ PcRank(pc') > PcRank(pc)
    \/ i' = i /\ pc' = pc /\ j' > j

\* C7: the targets are taken one at a time in list order, each exactly once,
\* whatever fails; the scan stops only when all of them have been taken,
\* until then it always has a next step, and every step moves it forward,
\* so that it reaches completion.
C7_EveryTargetAttempted ==
    /\ [](/\ attempted = [k \in 1..i |-> k]
          /\ pc = "done" => i = Len(targets)
          /\ pc # "done" => ENABLED Next)
    /\ [][Advances]_vars

\* a finished scan of two targets in which a lookup failed while the first
\* target was processed and the second target gave no certificate
C7_Witness ==
    /\ pc = "done" /\ i >= 2
    /\ failedNames # {}
    /\ x509_cert = NoCert

C9_SameSanSameAddress ==
    \A e1, e2 \in AllRecords :
        (e1.key = e2.key /\ e1.rec.SAN = e2.rec.SAN)
            => (e1.rec.IP = e2.rec.IP /\ e1.rec.IS_NEW_HOST = e2.rec.IS_NEW_HOST)

\* the first target lists a name twice; its first lookup failed and its
\* second succeeded
C9_Witness ==
    /\ BetweenTargets /\ i = 1 /\ CurrentYielded
    /\ Len(x509_cert_san.items) >= 2
    /\ x509_cert_san.items[1] = x509_cert_san.items[2]
    /\ x509_cert_san.items[1] \in failedNames
    /\ x509_cert_san.items[1] \in DOMAIN SAN_CACHE_DICT
    /\ Len(data[DataKey(targets[1])]) >= 2

\* C10: between two targets every key holds exactly the records of the last
\* occurrence of its target that yielded SAN entries, and an occurrence
\* that yields no certificate or no SAN entries leaves the ScanResult as
\* it was.
C10_LastOccurrenceWins ==
    /\ [](BetweenTargets =>
            \A t \in TargetPool :
                DataKey(t) \in DOMAIN data => SansOf(data[DataKey(t)]) = lastYield[t])
    /\ [][(pc \in {"loop", "extract"} /\ pc' \in {"loop", "done"}) => data' = data]_vars

\* the second occurrence of a target has replaced the records of the first:
\* a name resolved for the first occurrence is in the cache and not in the
\* records
C10_Witness ==
    /\ pc = "done" /\ i = 2 /\ targets[1] = targets[2]
    /\ CurrentYielded
    /\ \E n \in DOMAIN SAN_CACHE_DICT :
         \A e \in AllRecords : e.rec.SAN # n
====
